---- MODULE Spec2Model ----
(***************************************************************************)
(* virga: blocking byte-stream adapters (VirgeClient, VirgeServer) over a  *)
(* message channel, and the yamux implementation of that channel.          *)
(*                                                                         *)
(*   Spec        one adapter, all of its operations, over the message      *)
(*               channel; its peer connects, writes and disconnects        *)
(*   SpecYamux   YamuxTransport on both endpoints of one multiplexed       *)
(*               session                                                   *)
(*   SpecExample the example programs (length-prefixed exchange)           *)
(***************************************************************************)
EXTENDS Integers, Sequences, FiniteSets, TLC

\* ------------------------------------------------------------------ bounds
MaxLen == 2
MaxMsgs == 2
MaxBuf == 2
MaxSends == 2
MaxPayload == 8

Roles == {"client", "server"}
Peer(r) == IF r = "client" THEN "server" ELSE "client"

\* min that takes its first argument whatever the second
MinFirst(a, b) == a
Min(a, b) == IF a <= b THEN a ELSE b

\* The k-th message written by an endpoint, of length L: every byte of every
\* message of one direction is distinct, so loss, duplication, reordering and
\* mixing are all visible.
Payload(k, L) == [i \in 1..L |-> 10 * k + i]

BufSizes == 0..MaxBuf
MsgLens == 0..MaxLen

VARIABLES
    sut,             \* the adapter whose calls are recorded
    connected,       \* adapter: connected flag
    read_buffer,     \* adapter: leftover bytes of the last received message
    read_total_len,  \* adapter: length of the last received message
    connection,      \* channel: connection.is_some()
    link,            \* environment: this end of the point-to-point connection is up
    pending,         \* environment: a connection awaits ServerManager::accept
    inbox,           \* channel: messages sent by the peer and not yet received
    nsent,           \* history: messages the channel's send accepted so far, per sender
    last,            \* history: the call of the recorded adapter that returned last
    prev,            \* history: the kind of the call before that
    msg,             \* history: the message the last recv of read returned
    got,             \* history: bytes read has returned since that recv
    drain_size,      \* history: the buffer size of every read of that message
                     \*          so far, or -1 when they differ
    yamux_stream,    \* YamuxTransport: the cached stream (0: None)
    streams,         \* the logical streams of the multiplexed session
    ypc,             \* YamuxTransport: "recv" while recv waits in read_to_end
    ylast,           \* history: the last send or recv call of each transport
    slog,            \* history: the send calls of each transport, in order
    rlog,            \* history: the messages recv returned, in order
    cmain,           \* example client_test: position, buffer being filled, data_len
    smain,           \* example server_test: position and the data it sends
    pair             \* paired reads: whose turn it is, the buffer size and the
                     \*               two results of the round

adapterVars == <<connected, read_buffer, read_total_len>>
channelVars == <<connection, link, pending, inbox, nsent>>
histVars == <<msg, got, drain_size>>
yamuxVars == <<yamux_stream, streams, ypc, ylast, slog, rlog>>
vars == <<sut, connected, read_buffer, read_total_len, connection, link, pending,
          inbox, nsent, last, prev, msg, got, drain_size,
          yamux_stream, streams, ypc, ylast, slog, rlog, cmain, smain, pair>>
exampleVars == <<cmain, smain>>
pairVars == <<pair>>

\* ------------------------------------------------------------ call records
\* no paired read made yet
NoRead == [recv |-> FALSE, blocked |-> FALSE, out |-> <<>>]
NoPair == [turn |-> "client", B |-> 0, cres |-> NoRead, sres |-> NoRead]

NoCall ==
    [op |-> "none", B |-> 0, res |-> "Ok", n |-> 0, out |-> <<>>, call |-> "none",
     pre |-> [connected |-> FALSE, connection |-> FALSE, read_buffer |-> <<>>,
              read_total_len |-> 0, drain_size |-> -1]]

Call(r, op, B, res, n, out, call) ==
    [op |-> op, B |-> B, res |-> res, n |-> n, out |-> out, call |-> call,
     pre |-> [connected |-> connected[r], connection |-> connection[r],
              read_buffer |-> read_buffer[r], read_total_len |-> read_total_len[r],
              drain_size |-> drain_size[r]]]

\* a read that took the last bytes out of read_buffer, every read of the
\* message having had a buffer of the same size B > 0
Fin(c) ==
    /\ c.op = "read" /\ c.res = "Ok" /\ c.n > 0
    /\ c.pre.read_buffer # <<>> /\ c.n = Len(c.pre.read_buffer)
    /\ c.pre.drain_size = c.B

\* a read into a non-empty buffer that returned Ok(0) without a recv
Sig(c) ==
    /\ c.op = "read" /\ c.res = "Ok" /\ c.n = 0 /\ c.B > 0 /\ c.call = "none"

Kind(c) ==
    [kind |-> IF Fin(c) THEN "fin" ELSE IF Sig(c) THEN "sig" ELSE "other",
     B |-> IF Fin(c) \/ Sig(c) THEN c.B ELSE 0]
NoKind == [kind |-> "other", B |-> 0]

Return(r, rec) ==
    /\ last' = IF r = sut THEN rec ELSE last
    /\ prev' = IF r = sut THEN Kind(last) ELSE prev
    /\ UNCHANGED sut

\* ------------------------------------------------- the message channel
\* The session between the two ends carries data while both ends are up (or
\* the server end has not been accepted yet).
Up(r) == link[r] /\ (link[Peer(r)] \/ (r = "client" /\ pending))

YamuxTransport_is_connected(r) == connection[r]

XTransportHandler_is_connected(r) == YamuxTransport_is_connected(r)

SendOk(r) == XTransportHandler_is_connected(r) /\ Up(r)

\* send(message) -> Result<usize>: one message handed to the peer, whole
XTransportHandler_send(r, data) ==
    /\ inbox' = [inbox EXCEPT ![Peer(r)] = Append(@, data)]
    /\ nsent' = [nsent EXCEPT ![r] = @ + 1]
    /\ UNCHANGED <<connection, link, pending>>

\* recv() -> Result<Message>: the next whole message, or an error once the
\* session is gone; with neither it does not return
RecvOk(r) == XTransportHandler_is_connected(r) /\ inbox[r] # <<>>
RecvErr(r) == ~XTransportHandler_is_connected(r) \/ (inbox[r] = <<>> /\ ~Up(r))

XTransportHandler_recv(r) ==
    /\ inbox' = [inbox EXCEPT ![r] = Tail(@)]
    /\ UNCHANGED <<connection, link, pending, nsent>>

YamuxTransport_connect(r) ==
    connection' = [connection EXCEPT ![r] = TRUE]

YamuxTransport_disconnect(r) ==
    connection' = [connection EXCEPT ![r] = FALSE]

YamuxTransport_from_tokio_stream(r) ==
    connection' = [connection EXCEPT ![r] = TRUE]

\* connect: a new session; what the old one still carried is gone
XTransportHandler_connect(r) ==
    /\ YamuxTransport_connect(r)
    /\ link' = [link EXCEPT ![r] = TRUE, ![Peer(r)] = FALSE]
    /\ pending' = TRUE
    /\ inbox' = [x \in Roles |-> <<>>]
    /\ UNCHANGED nsent

XTransportHandler_disconnect(r) ==
    /\ YamuxTransport_disconnect(r)
    /\ link' = [link EXCEPT ![r] = FALSE]
    /\ pending' = IF r = "client" THEN FALSE ELSE pending
    /\ inbox' = [inbox EXCEPT ![r] = <<>>]
    /\ UNCHANGED nsent

\* ------------------------------------------------------------ VirgeClient
\* buf[..len], buf[len..] and Vec::drain(..len)
SliceTo(buf, len) == SubSeq(buf, 1, len)
SliceFrom(buf, len) == SubSeq(buf, len + 1, Len(buf))
DrainLost(buf, len) == SubSeq(buf, len + 2, Len(buf))
Drain(buf, len) == SubSeq(buf, len + 1, Len(buf))

VirgeClient_new ==
    /\ connected["client"] = FALSE
    /\ read_buffer["client"] = <<>>
    /\ read_total_len["client"] = 0

\* connect that forgets to set the flag
VirgeClient_connect_noflag(ok) ==
    LET r == "client" IN
    IF ok
    THEN /\ XTransportHandler_connect(r)
         /\ Return(r, Call(r, "connect", 0, "Ok", 0, <<>>, "connect"))
         /\ UNCHANGED <<adapterVars, histVars>>
    ELSE /\ Return(r, Call(r, "connect", 0, "Other", 0, <<>>, "connect"))
         /\ UNCHANGED <<adapterVars, channelVars, histVars>>

\* connect that sets the flag before the channel's connect has succeeded
VirgeClient_connect_eager(ok) ==
    LET r == "client" IN
    IF ok
    THEN /\ XTransportHandler_connect(r)
         /\ connected' = [connected EXCEPT ![r] = TRUE]
         /\ Return(r, Call(r, "connect", 0, "Ok", 0, <<>>, "connect"))
         /\ UNCHANGED <<read_buffer, read_total_len, histVars>>
    ELSE /\ connected' = [connected EXCEPT ![r] = TRUE]
         /\ Return(r, Call(r, "connect", 0, "Other", 0, <<>>, "connect"))
         /\ UNCHANGED <<read_buffer, read_total_len, channelVars, histVars>>

\* ok: whether the channel's connect succeeds
VirgeClient_connect(ok) ==
    LET r == "client" IN
    IF ok
    THEN /\ XTransportHandler_connect(r)
         /\ connected' = [connected EXCEPT ![r] = TRUE]
         /\ Return(r, Call(r, "connect", 0, "Ok", 0, <<>>, "connect"))
         /\ UNCHANGED <<read_buffer, read_total_len, histVars>>
    ELSE /\ Return(r, Call(r, "connect", 0, "Other", 0, <<>>, "connect"))
         /\ UNCHANGED <<adapterVars, channelVars, histVars>>

\* disconnect without the pending-data guard
VirgeClient_disconnect_unguarded ==
    LET r == "client" IN
    /\ XTransportHandler_disconnect(r)
    /\ connected' = [connected EXCEPT ![r] = FALSE]
    /\ Return(r, Call(r, "disconnect", 0, "Ok", 0, <<>>, "disconnect"))
    /\ UNCHANGED <<read_buffer, read_total_len, histVars>>

VirgeClient_disconnect ==
    LET r == "client" IN
    IF read_buffer[r] # <<>>
    THEN /\ Return(r, Call(r, "disconnect", 0, "Other", 0, <<>>, "none"))
         /\ UNCHANGED <<adapterVars, channelVars, histVars>>
    ELSE /\ XTransportHandler_disconnect(r)
         /\ connected' = [connected EXCEPT ![r] = FALSE]
         /\ Return(r, Call(r, "disconnect", 0, "Ok", 0, <<>>, "disconnect"))
         /\ UNCHANGED <<read_buffer, read_total_len, histVars>>

VirgeClient_send(data) ==
    LET r == "client" IN
    IF ~connected[r]
    THEN /\ Return(r, Call(r, "send", Len(data), "NotConnected", 0, <<>>, "none"))
         /\ UNCHANGED <<adapterVars, channelVars, histVars>>
    ELSE IF SendOk(r)
    THEN /\ XTransportHandler_send(r, data)
         /\ Return(r, Call(r, "send", Len(data), "Ok", Len(data), data, "send"))
         /\ UNCHANGED <<adapterVars, histVars>>
    ELSE /\ Return(r, Call(r, "send", Len(data), "Other", 0, <<>>, "send"))
         /\ UNCHANGED <<adapterVars, channelVars, histVars>>

VirgeClient_recv ==
    LET r == "client" IN
    IF ~connected[r]
    THEN /\ Return(r, Call(r, "recv", 0, "NotConnected", 0, <<>>, "none"))
         /\ UNCHANGED <<adapterVars, channelVars, histVars>>
    ELSE \/ /\ RecvOk(r)
            /\ XTransportHandler_recv(r)
            /\ Return(r, Call(r, "recv", 0, "Ok", Len(Head(inbox[r])), Head(inbox[r]), "recv"))
            /\ UNCHANGED <<adapterVars, histVars>>
         \/ /\ RecvErr(r)
            /\ Return(r, Call(r, "recv", 0, "Other", 0, <<>>, "recv"))
            /\ UNCHANGED <<adapterVars, channelVars, histVars>>

VirgeClient_is_connected ==
    connected["client"] /\ XTransportHandler_is_connected("client")

\* read that goes for the next message when read_buffer holds less than
\* the caller's buffer takes
VirgeClient_read_refill(B) ==
    LET r == "client" IN
    IF ~connected[r]
    THEN /\ Return(r, Call(r, "read", B, "NotConnected", 0, <<>>, "none"))
         /\ UNCHANGED <<adapterVars, channelVars, histVars>>
    ELSE IF read_buffer[r] # <<>> /\ Len(read_buffer[r]) >= B
    THEN LET len == Min(Len(read_buffer[r]), B) IN
         /\ read_buffer' = [read_buffer EXCEPT ![r] = Drain(@, len)]
         /\ got' = [got EXCEPT ![r] = @ \o SliceTo(read_buffer[r], len)]
         /\ drain_size' = [drain_size EXCEPT ![r] = IF @ = B THEN B ELSE -1]
         /\ Return(r, Call(r, "read", B, "Ok", len, SliceTo(read_buffer[r], len), "none"))
         /\ UNCHANGED <<connected, read_total_len, channelVars, msg>>
    ELSE IF read_buffer[r] = <<>> /\ read_total_len[r] # 0
    THEN /\ read_total_len' = [read_total_len EXCEPT ![r] = 0]
         /\ Return(r, Call(r, "read", B, "Ok", 0, <<>>, "none"))
         /\ UNCHANGED <<connected, read_buffer, channelVars, histVars>>
    ELSE \/ /\ RecvOk(r)
            /\ LET data == Head(inbox[r]) IN
               /\ XTransportHandler_recv(r)
               /\ read_total_len' = [read_total_len EXCEPT ![r] = Len(data)]
               /\ msg' = [msg EXCEPT ![r] = data]
               /\ drain_size' = [drain_size EXCEPT ![r] = B]
               /\ IF Len(data) <= B
                  THEN /\ got' = [got EXCEPT ![r] = data]
                       /\ Return(r, Call(r, "read", B, "Ok", Len(data), data, "recv"))
                       /\ UNCHANGED <<connected, read_buffer>>
                  ELSE /\ read_buffer' =
                            [read_buffer EXCEPT ![r] = @ \o SliceFrom(data, B)]
                       /\ got' = [got EXCEPT ![r] = SliceTo(data, B)]
                       /\ Return(r, Call(r, "read", B, "Ok", B, SliceTo(data, B), "recv"))
                       /\ UNCHANGED connected
         \/ /\ RecvErr(r)
            /\ Return(r, Call(r, "read", B, "Other", 0, <<>>, "recv"))
            /\ UNCHANGED <<adapterVars, channelVars, histVars>>

\* read without the connected check
VirgeClient_read_unchecked(B) ==
    LET r == "client" IN
    IF read_buffer[r] # <<>>
    THEN LET len == Min(Len(read_buffer[r]), B) IN
         /\ read_buffer' = [read_buffer EXCEPT ![r] = Drain(@, len)]
         /\ got' = [got EXCEPT ![r] = @ \o SliceTo(read_buffer[r], len)]
         /\ drain_size' = [drain_size EXCEPT ![r] = IF @ = B THEN B ELSE -1]
         /\ Return(r, Call(r, "read", B, "Ok", len, SliceTo(read_buffer[r], len), "none"))
         /\ UNCHANGED <<connected, read_total_len, channelVars, msg>>
    ELSE IF read_buffer[r] = <<>> /\ read_total_len[r] # 0
    THEN /\ read_total_len' = [read_total_len EXCEPT ![r] = 0]
         /\ Return(r, Call(r, "read", B, "Ok", 0, <<>>, "none"))
         /\ UNCHANGED <<connected, read_buffer, channelVars, histVars>>
    ELSE /\ RecvErr(r)
         /\ Return(r, Call(r, "read", B, "Other", 0, <<>>, "recv"))
         /\ UNCHANGED <<adapterVars, channelVars, histVars>>

\* B: the length of the caller's buffer
VirgeClient_read(B) ==
    LET r == "client" IN
    IF ~connected[r]
    THEN /\ Return(r, Call(r, "read", B, "NotConnected", 0, <<>>, "none"))
         /\ UNCHANGED <<adapterVars, channelVars, histVars>>
    ELSE IF read_buffer[r] # <<>>
    THEN LET len == Min(Len(read_buffer[r]), B) IN
         /\ read_buffer' = [read_buffer EXCEPT ![r] = Drain(@, len)]
         /\ got' = [got EXCEPT ![r] = @ \o SliceTo(read_buffer[r], len)]
         /\ drain_size' = [drain_size EXCEPT ![r] = IF @ = B THEN B ELSE -1]
         /\ Return(r, Call(r, "read", B, "Ok", len, SliceTo(read_buffer[r], len), "none"))
         /\ UNCHANGED <<connected, read_total_len, channelVars, msg>>
    ELSE IF read_buffer[r] = <<>> /\ read_total_len[r] # 0
    THEN /\ read_total_len' = [read_total_len EXCEPT ![r] = 0]
         /\ Return(r, Call(r, "read", B, "Ok", 0, <<>>, "none"))
         /\ UNCHANGED <<connected, read_buffer, channelVars, histVars>>
    ELSE \/ /\ RecvOk(r)
            /\ LET data == Head(inbox[r]) IN
               /\ XTransportHandler_recv(r)
               /\ read_total_len' = [read_total_len EXCEPT ![r] = Len(data)]
               /\ msg' = [msg EXCEPT ![r] = data]
               /\ drain_size' = [drain_size EXCEPT ![r] = B]
               /\ IF Len(data) <= B
                  THEN /\ got' = [got EXCEPT ![r] = data]
                       /\ Return(r, Call(r, "read", B, "Ok", Len(data), data, "recv"))
                       /\ UNCHANGED <<connected, read_buffer>>
                  ELSE /\ read_buffer' =
                            [read_buffer EXCEPT ![r] = @ \o SliceFrom(data, B)]
                       /\ got' = [got EXCEPT ![r] = SliceTo(data, B)]
                       /\ Return(r, Call(r, "read", B, "Ok", B, SliceTo(data, B), "recv"))
                       /\ UNCHANGED connected
         \/ /\ RecvErr(r)
            /\ Return(r, Call(r, "read", B, "Other", 0, <<>>, "recv"))
            /\ UNCHANGED <<adapterVars, channelVars, histVars>>

\* write that marks the adapter disconnected when the channel's send fails
VirgeClient_write_giveup(buf) ==
    LET r == "client" IN
    IF ~connected[r]
    THEN /\ Return(r, Call(r, "write", Len(buf), "NotConnected", 0, <<>>, "none"))
         /\ UNCHANGED <<adapterVars, channelVars, histVars>>
    ELSE IF SendOk(r)
    THEN /\ XTransportHandler_send(r, buf)
         /\ Return(r, Call(r, "write", Len(buf), "Ok", Len(buf), buf, "send"))
         /\ UNCHANGED <<adapterVars, histVars>>
    ELSE /\ connected' = [connected EXCEPT ![r] = FALSE]
         /\ Return(r, Call(r, "write", Len(buf), "Other", 0, <<>>, "send"))
         /\ UNCHANGED <<read_buffer, read_total_len, channelVars, histVars>>

\* write that hands the channel all but the last byte of buf
VirgeClient_write_short(buf) ==
    LET r == "client"
        part == SliceTo(buf, Len(buf) - 1) IN
    IF ~connected[r]
    THEN /\ Return(r, Call(r, "write", Len(buf), "NotConnected", 0, <<>>, "none"))
         /\ UNCHANGED <<adapterVars, channelVars, histVars>>
    ELSE IF SendOk(r)
    THEN /\ XTransportHandler_send(r, IF buf = <<>> THEN buf ELSE part)
         /\ Return(r, Call(r, "write", Len(buf), "Ok", Len(part), part, "send"))
         /\ UNCHANGED <<adapterVars, histVars>>
    ELSE /\ Return(r, Call(r, "write", Len(buf), "Other", 0, <<>>, "send"))
         /\ UNCHANGED <<adapterVars, channelVars, histVars>>

VirgeClient_write(buf) ==
    LET r == "client" IN
    IF ~connected[r]
    THEN /\ Return(r, Call(r, "write", Len(buf), "NotConnected", 0, <<>>, "none"))
         /\ UNCHANGED <<adapterVars, channelVars, histVars>>
    ELSE IF SendOk(r)
    THEN /\ XTransportHandler_send(r, buf)
         /\ Return(r, Call(r, "write", Len(buf), "Ok", Len(buf), buf, "send"))
         /\ UNCHANGED <<adapterVars, histVars>>
    ELSE /\ Return(r, Call(r, "write", Len(buf), "Other", 0, <<>>, "send"))
         /\ UNCHANGED <<adapterVars, channelVars, histVars>>

\* ------------------------------------------------------------ VirgeServer
\* VirgeServer::new(trans, conn)
VirgeServer_new(conn) ==
    /\ connected' = [connected EXCEPT !["server"] = conn]
    /\ read_buffer' = [read_buffer EXCEPT !["server"] = <<>>]
    /\ read_total_len' = [read_total_len EXCEPT !["server"] = 0]

\* ServerManager::accept: the connection a client opened becomes a new
\* VirgeServer over a transport initialised from that connection
ServerManager_accept ==
    /\ pending
    /\ YamuxTransport_from_tokio_stream("server")
    /\ link' = [link EXCEPT !["server"] = TRUE]
    /\ pending' = FALSE
    /\ VirgeServer_new(TRUE)
    /\ msg' = [msg EXCEPT !["server"] = <<>>]
    /\ got' = [got EXCEPT !["server"] = <<>>]
    /\ drain_size' = [drain_size EXCEPT !["server"] = -1]
    /\ last' = IF sut = "server" THEN NoCall ELSE last
    /\ prev' = IF sut = "server" THEN NoKind ELSE prev
    /\ UNCHANGED <<sut, inbox, nsent>>

VirgeServer_disconnect ==
    LET r == "server" IN
    IF read_buffer[r] # <<>>
    THEN /\ Return(r, Call(r, "disconnect", 0, "Other", 0, <<>>, "none"))
         /\ UNCHANGED <<adapterVars, channelVars, histVars>>
    ELSE /\ XTransportHandler_disconnect(r)
         /\ connected' = [connected EXCEPT ![r] = FALSE]
         /\ Return(r, Call(r, "disconnect", 0, "Ok", 0, <<>>, "disconnect"))
         /\ UNCHANGED <<read_buffer, read_total_len, histVars>>

VirgeServer_send(data) ==
    LET r == "server" IN
    IF ~connected[r]
    THEN /\ Return(r, Call(r, "send", Len(data), "NotConnected", 0, <<>>, "none"))
         /\ UNCHANGED <<adapterVars, channelVars, histVars>>
    ELSE IF SendOk(r)
    THEN /\ XTransportHandler_send(r, data)
         /\ Return(r, Call(r, "send", Len(data), "Ok", Len(data), data, "send"))
         /\ UNCHANGED <<adapterVars, histVars>>
    ELSE /\ Return(r, Call(r, "send", Len(data), "Other", 0, <<>>, "send"))
         /\ UNCHANGED <<adapterVars, channelVars, histVars>>

VirgeServer_recv ==
    LET r == "server" IN
    IF ~connected[r]
    THEN /\ Return(r, Call(r, "recv", 0, "NotConnected", 0, <<>>, "none"))
         /\ UNCHANGED <<adapterVars, channelVars, histVars>>
    ELSE \/ /\ RecvOk(r)
            /\ XTransportHandler_recv(r)
            /\ Return(r, Call(r, "recv", 0, "Ok", Len(Head(inbox[r])), Head(inbox[r]), "recv"))
            /\ UNCHANGED <<adapterVars, histVars>>
         \/ /\ RecvErr(r)
            /\ Return(r, Call(r, "recv", 0, "Other", 0, <<>>, "recv"))
            /\ UNCHANGED <<adapterVars, channelVars, histVars>>

VirgeServer_is_connected ==
    connected["server"] /\ XTransportHandler_is_connected("server")

\* B: the length of the caller's buffer
\* read that resets read_total_len after every buffered read, drained or not
VirgeServer_read_reset(B) ==
    LET r == "server" IN
    IF ~connected[r]
    THEN /\ Return(r, Call(r, "read", B, "NotConnected", 0, <<>>, "none"))
         /\ UNCHANGED <<adapterVars, channelVars, histVars>>
    ELSE IF read_buffer[r] # <<>>
    THEN LET len == Min(Len(read_buffer[r]), B) IN
         /\ read_buffer' = [read_buffer EXCEPT ![r] = Drain(@, len)]
         /\ got' = [got EXCEPT ![r] = @ \o SliceTo(read_buffer[r], len)]
         /\ drain_size' = [drain_size EXCEPT ![r] = IF @ = B THEN B ELSE -1]
         /\ read_total_len' = [read_total_len EXCEPT ![r] = 0]
         /\ Return(r, Call(r, "read", B, "Ok", len, SliceTo(read_buffer[r], len), "none"))
         /\ UNCHANGED <<connected, channelVars, msg>>
    ELSE IF read_buffer[r] = <<>> /\ read_total_len[r] # 0
    THEN /\ read_total_len' = [read_total_len EXCEPT ![r] = 0]
         /\ Return(r, Call(r, "read", B, "Ok", 0, <<>>, "none"))
         /\ UNCHANGED <<connected, read_buffer, channelVars, histVars>>
    ELSE \/ /\ RecvOk(r)
            /\ LET data == Head(inbox[r]) IN
               /\ XTransportHandler_recv(r)
               /\ read_total_len' = [read_total_len EXCEPT ![r] = Len(data)]
               /\ msg' = [msg EXCEPT ![r] = data]
               /\ drain_size' = [drain_size EXCEPT ![r] = B]
               /\ IF Len(data) <= B
                  THEN /\ got' = [got EXCEPT ![r] = data]
                       /\ Return(r, Call(r, "read", B, "Ok", Len(data), data, "recv"))
                       /\ UNCHANGED <<connected, read_buffer>>
                  ELSE /\ read_buffer' =
                            [read_buffer EXCEPT ![r] = @ \o SliceFrom(data, B)]
                       /\ got' = [got EXCEPT ![r] = SliceTo(data, B)]
                       /\ Return(r, Call(r, "read", B, "Ok", B, SliceTo(data, B), "recv"))
                       /\ UNCHANGED connected
         \/ /\ RecvErr(r)
            /\ Return(r, Call(r, "read", B, "Other", 0, <<>>, "recv"))
            /\ UNCHANGED <<adapterVars, channelVars, histVars>>

VirgeServer_read(B) ==
    LET r == "server" IN
    IF ~connected[r]
    THEN /\ Return(r, Call(r, "read", B, "NotConnected", 0, <<>>, "none"))
         /\ UNCHANGED <<adapterVars, channelVars, histVars>>
    ELSE IF read_buffer[r] # <<>>
    THEN LET len == Min(Len(read_buffer[r]), B) IN
         /\ read_buffer' = [read_buffer EXCEPT ![r] = Drain(@, len)]
         /\ got' = [got EXCEPT ![r] = @ \o SliceTo(read_buffer[r], len)]
         /\ drain_size' = [drain_size EXCEPT ![r] = IF @ = B THEN B ELSE -1]
         /\ read_total_len' =
                IF Drain(read_buffer[r], len) = <<>>
                THEN [read_total_len EXCEPT ![r] = 0]
                ELSE read_total_len
         /\ Return(r, Call(r, "read", B, "Ok", len, SliceTo(read_buffer[r], len), "none"))
         /\ UNCHANGED <<connected, channelVars, msg>>
    ELSE IF read_buffer[r] = <<>> /\ read_total_len[r] # 0
    THEN /\ read_total_len' = [read_total_len EXCEPT ![r] = 0]
         /\ Return(r, Call(r, "read", B, "Ok", 0, <<>>, "none"))
         /\ UNCHANGED <<connected, read_buffer, channelVars, histVars>>
    ELSE \/ /\ RecvOk(r)
            /\ LET data == Head(inbox[r]) IN
               /\ XTransportHandler_recv(r)
               /\ read_total_len' = [read_total_len EXCEPT ![r] = Len(data)]
               /\ msg' = [msg EXCEPT ![r] = data]
               /\ drain_size' = [drain_size EXCEPT ![r] = B]
               /\ IF Len(data) <= B
                  THEN /\ got' = [got EXCEPT ![r] = data]
                       /\ Return(r, Call(r, "read", B, "Ok", Len(data), data, "recv"))
                       /\ UNCHANGED <<connected, read_buffer>>
                  ELSE /\ read_buffer' =
                            [read_buffer EXCEPT ![r] = @ \o SliceFrom(data, B)]
                       /\ got' = [got EXCEPT ![r] = SliceTo(data, B)]
                       /\ Return(r, Call(r, "read", B, "Ok", B, SliceTo(data, B), "recv"))
                       /\ UNCHANGED connected
         \/ /\ RecvErr(r)
            /\ Return(r, Call(r, "read", B, "Other", 0, <<>>, "recv"))
            /\ UNCHANGED <<adapterVars, channelVars, histVars>>

VirgeServer_write(buf) ==
    LET r == "server" IN
    IF ~connected[r]
    THEN /\ Return(r, Call(r, "write", Len(buf), "NotConnected", 0, <<>>, "none"))
         /\ UNCHANGED <<adapterVars, channelVars, histVars>>
    ELSE IF SendOk(r)
    THEN /\ XTransportHandler_send(r, buf)
         /\ Return(r, Call(r, "write", Len(buf), "Ok", Len(buf), buf, "send"))
         /\ UNCHANGED <<adapterVars, histVars>>
    ELSE /\ Return(r, Call(r, "write", Len(buf), "Other", 0, <<>>, "send"))
         /\ UNCHANGED <<adapterVars, channelVars, histVars>>

\* --------------------------------------------------------- YamuxTransport
\* A logical stream of the session: who opened it, what the opener wrote and
\* whether the opener half-closed it, and the same for the accepting side.
\* sends and recvs count the send and recv calls of the opener that used it
\* (2: more than one).
NewStream(r) ==
    [owner |-> r, out |-> <<>>, wclosed |-> FALSE, inp |-> <<>>, rclosed |-> FALSE,
     sends |-> 0, recvs |-> 0]

YNoCall ==
    [op |-> "none", res |-> "Ok", data |-> <<>>, stream |-> 0, opened |-> FALSE,
     cached |-> FALSE, connected |-> FALSE, up |-> FALSE, halfclosed |-> FALSE]

YCall(r, op, res, data, s, opened) ==
    [op |-> op, res |-> res, data |-> data, stream |-> s, opened |-> opened,
     cached |-> yamux_stream[r] # 0, connected |-> connection[r], up |-> Up(r),
     halfclosed |-> yamux_stream[r] # 0 /\ streams[yamux_stream[r]].wclosed]

YReturn(r, rec) == ylast' = IF r = sut THEN rec ELSE ylast

YamuxTransport_new(r) ==
    /\ connection[r] = FALSE
    /\ yamux_stream[r] = 0

\* get_or_create_stream: the cached stream, or a new outbound stream that
\* becomes the cached one
StreamOpens(r) == yamux_stream[r] = 0 /\ connection[r] /\ Up(r)
get_or_create_stream_fails(r) == yamux_stream[r] = 0 /\ ~(connection[r] /\ Up(r))
get_or_create_stream(r) ==
    IF yamux_stream[r] = 0 THEN Len(streams) + 1 ELSE yamux_stream[r]
StreamsAfterGet(r) ==
    IF yamux_stream[r] = 0 THEN Append(streams, NewStream(r)) ELSE streams

\* write_all: nothing to do for an empty buffer; an error on a stream whose
\* write side is closed or whose session is gone
write_all_ok(r, st, data) == data = <<>> \/ (~st.wclosed /\ Up(r))
\* close: half-closes the write side; an error once the session is gone
close_ok(r) == Up(r)

YamuxTransport_send(r, data) ==
    /\ ypc[r] = "idle"
    /\ UNCHANGED <<connection, link, pending, ypc, rlog>>
    /\ IF ~YamuxTransport_is_connected(r)
       THEN /\ YReturn(r, YCall(r, "send", "TransportError", data, 0, FALSE))
            /\ slog' = Append(slog, [data |-> data, res |-> "TransportError", conn |-> connection[r], up |-> Up(r)])
            /\ UNCHANGED <<yamux_stream, streams>>
       ELSE IF get_or_create_stream_fails(r)
       THEN /\ YReturn(r, YCall(r, "send", "TransportError", data, 0, FALSE))
            /\ slog' = Append(slog, [data |-> data, res |-> "TransportError", conn |-> connection[r], up |-> Up(r)])
            /\ UNCHANGED <<yamux_stream, streams>>
       ELSE LET s == get_or_create_stream(r)
                st == [StreamsAfterGet(r) EXCEPT ![s].sends = Min(@ + 1, 2)]
                res == IF ~write_all_ok(r, st[s], data) THEN "Other"
                       ELSE IF ~close_ok(r) THEN "Io" ELSE "Ok"
            IN
            /\ yamux_stream' = [yamux_stream EXCEPT ![r] = s]
            /\ streams' =
                   IF ~write_all_ok(r, st[s], data) THEN st
                   ELSE IF ~close_ok(r) THEN [st EXCEPT ![s].out = @ \o data]
                   ELSE [st EXCEPT ![s].out = @ \o data, ![s].wclosed = TRUE]
            /\ YReturn(r, YCall(r, "send", res, data, s, StreamOpens(r)))
            /\ slog' = Append(slog, [data |-> data, res |-> res, conn |-> connection[r], up |-> Up(r)])

\* recv up to read_to_end, which waits for the other side to half-close
YamuxTransport_recv(r) ==
    /\ ypc[r] = "idle"
    /\ UNCHANGED <<connection, link, pending, slog, rlog>>
    /\ IF ~YamuxTransport_is_connected(r)
       THEN /\ YReturn(r, YCall(r, "recv", "TransportError", <<>>, 0, FALSE))
            /\ UNCHANGED <<yamux_stream, streams, ypc>>
       ELSE IF get_or_create_stream_fails(r)
       THEN /\ YReturn(r, YCall(r, "recv", "TransportError", <<>>, 0, FALSE))
            /\ UNCHANGED <<yamux_stream, streams, ypc>>
       ELSE LET s == get_or_create_stream(r) IN
            /\ yamux_stream' = [yamux_stream EXCEPT ![r] = s]
            /\ streams' = [StreamsAfterGet(r) EXCEPT ![s].recvs = Min(@ + 1, 2)]
            /\ ypc' = [ypc EXCEPT ![r] = "recv"]
            /\ YReturn(r, YCall(r, "recv", "waiting", <<>>, s, StreamOpens(r)))

\* recv that returns what has arrived so far instead of reading to the end
YamuxTransport_recv_return_early(r) ==
    /\ ypc[r] = "recv"
    /\ LET st == streams[yamux_stream[r]] IN
       /\ ylast' = IF r = sut THEN [ylast EXCEPT !.res = "Ok", !.data = st.inp] ELSE ylast
       /\ rlog' = [rlog EXCEPT ![r] = Append(@, st.inp)]
    /\ ypc' = [ypc EXCEPT ![r] = "idle"]
    /\ UNCHANGED <<connection, link, pending, yamux_stream, streams, slog>>

\* read_to_end returns: everything the other side wrote once it half-closed
\* the stream, or an error once the session is gone
YamuxTransport_recv_return(r) ==
    /\ ypc[r] = "recv"
    /\ LET st == streams[yamux_stream[r]] IN
       /\ st.rclosed \/ ~Up(r)
       /\ ylast' = IF r = sut
                   THEN [ylast EXCEPT !.res = IF st.rclosed THEN "Ok" ELSE "Other",
                                      !.data = IF st.rclosed THEN st.inp ELSE <<>>]
                   ELSE ylast
       /\ rlog' = [rlog EXCEPT ![r] = IF st.rclosed THEN Append(@, st.inp) ELSE @]
    /\ ypc' = [ypc EXCEPT ![r] = "idle"]
    /\ UNCHANGED <<connection, link, pending, yamux_stream, streams, slog>>

\* connect on a disconnected transport; ok: whether the vsock connect succeeds
YamuxTransport_connect_call(ok) ==
    LET r == "client" IN
    /\ ypc[r] = "idle"
    /\ ~connection[r]
    /\ IF ok
       THEN \* a new session; the server's transport of the old one is dropped
            /\ connection' = [connection EXCEPT ![r] = TRUE, ![Peer(r)] = FALSE]
            /\ link' = [link EXCEPT ![r] = TRUE, ![Peer(r)] = FALSE]
            /\ pending' = TRUE
            /\ streams' = <<>>
            /\ yamux_stream' = [yamux_stream EXCEPT ![Peer(r)] = 0]
            /\ ypc' = [ypc EXCEPT ![Peer(r)] = "idle"]
            /\ slog' = <<>>
            /\ rlog' = [x \in Roles |-> <<>>]
            /\ ylast' = IF r = sut THEN YCall(r, "connect", "Ok", <<>>, 0, FALSE) ELSE YNoCall
       ELSE /\ YReturn(r, YCall(r, "connect", "ConnectionError", <<>>, 0, FALSE))
            /\ UNCHANGED <<connection, link, pending, yamux_stream, streams, ypc, slog, rlog>>

\* the server side of a new connection: new_server() and from_tokio_stream
YamuxTransport_from_tokio_stream_call ==
    LET r == "server" IN
    /\ pending
    /\ YamuxTransport_from_tokio_stream(r)
    /\ link' = [link EXCEPT ![r] = TRUE]
    /\ pending' = FALSE
    /\ yamux_stream' = [yamux_stream EXCEPT ![r] = 0]
    /\ ypc' = [ypc EXCEPT ![r] = "idle"]
    /\ ylast' = IF r = sut THEN YNoCall ELSE ylast
    /\ UNCHANGED <<streams, slog, rlog>>

YamuxTransport_disconnect_call(r) ==
    /\ ypc[r] = "idle"
    /\ YamuxTransport_disconnect(r)
    /\ yamux_stream' = [yamux_stream EXCEPT ![r] = 0]
    /\ link' = [link EXCEPT ![r] = FALSE]
    /\ pending' = IF r = "client" THEN FALSE ELSE pending
    /\ YReturn(r, YCall(r, "disconnect", "Ok", <<>>, 0, FALSE))
    /\ UNCHANGED <<streams, ypc, slog, rlog>>

\* ------------------------------------------------------------------ Spec
BaseInit ==
    /\ connected = [r \in Roles |-> FALSE]
    /\ read_buffer = [r \in Roles |-> <<>>]
    /\ read_total_len = [r \in Roles |-> 0]
    /\ connection = [r \in Roles |-> FALSE]
    /\ link = [r \in Roles |-> FALSE]
    /\ pending = FALSE
    /\ inbox = [r \in Roles |-> <<>>]
    /\ nsent = [r \in Roles |-> 0]
    /\ last = NoCall
    /\ prev = NoKind
    /\ msg = [r \in Roles |-> <<>>]
    /\ got = [r \in Roles |-> <<>>]
    /\ drain_size = [r \in Roles |-> -1]
    /\ yamux_stream = [r \in Roles |-> 0]
    /\ streams = <<>>
    /\ ypc = [r \in Roles |-> "idle"]
    /\ ylast = YNoCall
    /\ slog = <<>>
    /\ rlog = [r \in Roles |-> <<>>]
    /\ cmain = [pc |-> "connect", buf |-> <<>>, data_len |-> 0]
    /\ pair = NoPair

Init ==
    /\ BaseInit
    /\ sut \in Roles
    /\ smain = [pc |-> "accept", data |-> <<>>]

\* the next message an endpoint writes, of length L
NextMsg(r, L) == Payload(nsent[r] + 1, L)
MayWrite(r) == nsent["client"] + nsent["server"] < MaxMsgs

\* the recorded adapter makes every call; its peer connects, writes and
\* disconnects
ClientConnect == (\E ok \in BOOLEAN : VirgeClient_connect(ok)) /\ UNCHANGED <<yamuxVars, exampleVars, pairVars>>
ClientDisconnect == VirgeClient_disconnect /\ UNCHANGED <<yamuxVars, exampleVars, pairVars>>
ClientWrite ==
    /\ \E L \in MsgLens : MayWrite("client") /\ VirgeClient_write(NextMsg("client", L))
    /\ UNCHANGED <<yamuxVars, exampleVars, pairVars>>
ClientSend ==
    /\ sut = "client"
    /\ \E L \in MsgLens : MayWrite("client") /\ VirgeClient_send(NextMsg("client", L))
    /\ UNCHANGED <<yamuxVars, exampleVars, pairVars>>
ClientRecv == sut = "client" /\ VirgeClient_recv /\ UNCHANGED <<yamuxVars, exampleVars, pairVars>>
ClientRead ==
    /\ sut = "client"
    /\ \E B \in BufSizes : VirgeClient_read(B)
    /\ UNCHANGED <<yamuxVars, exampleVars, pairVars>>
ServerAccept == ServerManager_accept /\ UNCHANGED <<yamuxVars, exampleVars, pairVars>>
ServerDisconnect == VirgeServer_disconnect /\ UNCHANGED <<yamuxVars, exampleVars, pairVars>>
ServerWrite ==
    /\ \E L \in MsgLens : MayWrite("server") /\ VirgeServer_write(NextMsg("server", L))
    /\ UNCHANGED <<yamuxVars, exampleVars, pairVars>>
ServerSend ==
    /\ sut = "server"
    /\ \E L \in MsgLens : MayWrite("server") /\ VirgeServer_send(NextMsg("server", L))
    /\ UNCHANGED <<yamuxVars, exampleVars, pairVars>>
ServerRecv == sut = "server" /\ VirgeServer_recv /\ UNCHANGED <<yamuxVars, exampleVars, pairVars>>
ServerRead ==
    /\ sut = "server"
    /\ \E B \in BufSizes : VirgeServer_read(B)
    /\ UNCHANGED <<yamuxVars, exampleVars, pairVars>>

Next ==
    \/ ClientConnect
    \/ ClientDisconnect
    \/ ClientWrite
    \/ ClientSend
    \/ ClientRecv
    \/ ClientRead
    \/ ServerAccept
    \/ ServerDisconnect
    \/ ServerWrite
    \/ ServerSend
    \/ ServerRecv
    \/ ServerRead

Spec == Init /\ [][Next]_vars

\* ------------------------------------------------------------- SpecYamux
adapterSide == <<sut, connected, read_buffer, read_total_len, inbox, nsent,
                 last, prev, msg, got, drain_size, cmain, smain, pair>>

\* the recorded transport makes every call; its peer connects, receives and
\* disconnects
YMsg(L) == Payload(Len(slog) + 1, L)
YMaySend == Len(slog) < MaxSends

YConnect == (\E ok \in BOOLEAN : YamuxTransport_connect_call(ok)) /\ UNCHANGED adapterSide
YAccept == YamuxTransport_from_tokio_stream_call /\ UNCHANGED adapterSide
YDisconnect == (\E r \in Roles : YamuxTransport_disconnect_call(r)) /\ UNCHANGED adapterSide
YSend ==
    /\ \E L \in MsgLens : YMaySend /\ YamuxTransport_send(sut, YMsg(L))
    /\ UNCHANGED adapterSide
YRecv == (\E r \in Roles : YamuxTransport_recv(r)) /\ UNCHANGED adapterSide
YRecvReturn == (\E r \in Roles : YamuxTransport_recv_return(r)) /\ UNCHANGED adapterSide

NextYamux ==
    \/ YConnect
    \/ YAccept
    \/ YDisconnect
    \/ YSend
    \/ YRecv
    \/ YRecvReturn

SpecYamux == Init /\ [][NextYamux]_vars

\* ------------------------------------------------------------ SpecExample
\* example/server_test and example/client_test: the server writes the length
\* of its data as 8 big-endian bytes and then the data; the client fills an
\* 8-byte buffer with read_exact, decodes the length and fills a buffer of
\* that length with read_exact.
HdrLen == 8

\* n >> (8 * k)
RECURSIVE Shr8(_, _)
Shr8(n, k) == IF k = 0 THEN n ELSE Shr8(n \div 256, k - 1)

\* usize::to_be_bytes and usize::from_be_bytes
to_be_bytes(n) == [i \in 1..HdrLen |-> Shr8(n, HdrLen - i) % 256]

RECURSIVE from_be_bytes(_)
from_be_bytes(b) ==
    IF b = <<>> THEN 0
    ELSE 256 * from_be_bytes(SubSeq(b, 1, Len(b) - 1)) + b[Len(b)]

\* vec![0; n]
Zeros(n) == [i \in 1..n |-> 0]

InitExample ==
    /\ BaseInit
    /\ sut = "client"
    /\ \E n \in 1..MaxPayload : smain = [pc |-> "accept", data |-> Zeros(n)]

\* server_test main
ServerMainAccept ==
    /\ smain.pc = "accept"
    /\ ServerManager_accept
    /\ smain' = [smain EXCEPT !.pc = "write_len"]
    /\ UNCHANGED <<cmain, yamuxVars, pairVars>>

\* server.write(..)?: an error ends main
WriteOk(r) == connected[r] /\ SendOk(r)

ServerMainWriteLen ==
    /\ smain.pc = "write_len"
    /\ VirgeServer_write(to_be_bytes(Len(smain.data)))
    /\ smain' = [smain EXCEPT !.pc = IF WriteOk("server") THEN "write_data" ELSE "error"]
    /\ UNCHANGED <<cmain, yamuxVars, pairVars>>

ServerMainWriteData ==
    /\ smain.pc = "write_data"
    /\ VirgeServer_write(smain.data)
    /\ smain' = [smain EXCEPT !.pc = IF WriteOk("server") THEN "done" ELSE "error"]
    /\ UNCHANGED <<cmain, yamuxVars, pairVars>>

\* main returns: the VirgeServer and its connection are dropped
ServerMainExit ==
    /\ smain.pc \in {"done", "error"}
    /\ smain' = [smain EXCEPT !.pc = "exited"]
    /\ link' = [link EXCEPT !["server"] = FALSE]
    /\ UNCHANGED <<sut, adapterVars, connection, pending, inbox, nsent, last, prev,
                   histVars, cmain, yamuxVars, pairVars>>

\* client_test main
ClientMainConnect ==
    /\ cmain.pc = "connect"
    /\ \E ok \in BOOLEAN :
           /\ VirgeClient_connect(ok)
           /\ cmain' = [cmain EXCEPT !.pc = IF ok THEN "read_len" ELSE "error"]
    /\ UNCHANGED <<smain, yamuxVars, pairVars>>

\* what main holds once a read_exact has filled its buffer with b
LenFilled(b) == [pc |-> "read_data", buf |-> <<>>, data_len |-> from_be_bytes(b)]
DataFilled(b) == [pc |-> "done", buf |-> b, data_len |-> cmain.data_len]
Filled(b) == IF cmain.pc = "read_len" THEN LenFilled(b) ELSE DataFilled(b)

\* one pass of the loop of Read::read_exact over a buffer of `size` bytes:
\* read into the unfilled rest; Ok(0) ends the loop short (UnexpectedEof)
read_exact_step(size) ==
    /\ VirgeClient_read(size - Len(cmain.buf))
    /\ cmain' =
           IF last'.res # "Ok" THEN [cmain EXCEPT !.pc = "error"]
           ELSE IF last'.n = 0 THEN [cmain EXCEPT !.pc = "eof"]
           ELSE IF Len(cmain.buf) + last'.n = size
           THEN Filled(cmain.buf \o last'.out)
           ELSE [cmain EXCEPT !.buf = @ \o last'.out]

ClientMainReadLen ==
    /\ cmain.pc = "read_len"
    /\ read_exact_step(HdrLen)
    /\ UNCHANGED <<smain, yamuxVars, pairVars>>

ClientMainReadData ==
    /\ cmain.pc = "read_data"
    /\ cmain.data_len > 0
    /\ read_exact_step(cmain.data_len)
    /\ UNCHANGED <<smain, yamuxVars, pairVars>>

\* main returns: the VirgeClient and its connection are dropped
ClientMainExit ==
    /\ cmain.pc \in {"done", "eof", "error"}
    /\ cmain' = [cmain EXCEPT !.pc = "exited:" \o cmain.pc]
    /\ link' = [link EXCEPT !["client"] = FALSE]
    /\ pending' = FALSE
    /\ UNCHANGED <<sut, adapterVars, connection, inbox, nsent, last, prev,
                   histVars, smain, yamuxVars, pairVars>>

NextExample ==
    \/ ServerMainAccept
    \/ ServerMainWriteLen
    \/ ServerMainWriteData
    \/ ServerMainExit
    \/ ClientMainConnect
    \/ ClientMainReadLen
    \/ ClientMainReadData
    \/ ClientMainExit

SpecExample == InitExample /\ [][NextExample]_vars

\* -------------------------------------------------------------- SpecPair
\* VirgeClient::read and VirgeServer::read side by side: both adapters start
\* connected with empty read state, receive the same messages and are read
\* with the same buffer sizes, the client first and then the server.
InitPair ==
    /\ sut = "client"
    /\ connected = [r \in Roles |-> TRUE]
    /\ read_buffer = [r \in Roles |-> <<>>]
    /\ read_total_len = [r \in Roles |-> 0]
    /\ connection = [r \in Roles |-> TRUE]
    /\ link = [r \in Roles |-> TRUE]
    /\ pending = FALSE
    /\ inbox = [r \in Roles |-> <<>>]
    /\ nsent = [r \in Roles |-> 0]
    /\ last = NoCall
    /\ prev = NoKind
    /\ msg = [r \in Roles |-> <<>>]
    /\ got = [r \in Roles |-> <<>>]
    /\ drain_size = [r \in Roles |-> -1]
    /\ yamux_stream = [r \in Roles |-> 0]
    /\ streams = <<>>
    /\ ypc = [r \in Roles |-> "idle"]
    /\ ylast = YNoCall
    /\ slog = <<>>
    /\ rlog = [r \in Roles |-> <<>>]
    /\ cmain = [pc |-> "connect", buf |-> <<>>, data_len |-> 0]
    /\ smain = [pc |-> "accept", data |-> <<>>]
    /\ pair = NoPair

\* the same message arrives at both adapters
PairFeed ==
    /\ pair.turn = "client"
    /\ nsent["client"] < MaxMsgs
    /\ \E L \in MsgLens :
           inbox' = [r \in Roles |-> Append(inbox[r], Payload(nsent["client"] + 1, L))]
    /\ nsent' = [r \in Roles |-> nsent[r] + 1]
    /\ UNCHANGED <<sut, adapterVars, connection, link, pending, last, prev, histVars,
                   yamuxVars, exampleVars, pairVars>>

\* read would call recv and no message has arrived: the call waits in recv
ReadBlocks(r) ==
    /\ connected[r] /\ read_buffer[r] = <<>> /\ read_total_len[r] = 0
    /\ ~RecvOk(r) /\ ~RecvErr(r)

\* what the caller of a read that returned Ok observes: whether the call
\* took a message from the channel, and the bytes it returned
ReadResult(r) ==
    LET recv == Len(inbox'[r]) < Len(inbox[r]) IN
    [recv |-> recv, blocked |-> FALSE,
     out |-> IF recv THEN got'[r] ELSE SubSeq(got'[r], Len(got[r]) + 1, Len(got'[r]))]
Blocked == [recv |-> TRUE, blocked |-> TRUE, out |-> <<>>]

PairClientRead ==
    /\ pair.turn = "client"
    /\ \E B \in BufSizes :
           IF ReadBlocks("client")
           THEN /\ pair' = [pair EXCEPT !.turn = "server", !.B = B, !.cres = Blocked]
                /\ UNCHANGED <<sut, adapterVars, channelVars, last, prev, histVars>>
           ELSE /\ VirgeClient_read(B)
                /\ pair' = [pair EXCEPT !.turn = "server", !.B = B,
                                        !.cres = ReadResult("client")]
    /\ UNCHANGED <<yamuxVars, exampleVars>>

PairServerRead ==
    /\ pair.turn = "server"
    /\ IF ReadBlocks("server")
       THEN /\ pair' = [pair EXCEPT !.turn = "client", !.sres = Blocked]
            /\ UNCHANGED <<sut, adapterVars, channelVars, last, prev, histVars>>
       ELSE /\ VirgeServer_read(pair.B)
            /\ pair' = [pair EXCEPT !.turn = "client", !.sres = ReadResult("server")]
    /\ UNCHANGED <<yamuxVars, exampleVars>>

NextPair ==
    \/ PairFeed
    \/ PairClientRead
    \/ PairServerRead

SpecPair == InitPair /\ [][NextPair]_vars

\* ------------------------------------------------------- properties checked under Spec
\* In these formulas `last` is the call of the recorded adapter (sut) that
\* returned last, with the adapter's state before the call in last.pre, and
\* `prev` is the kind of the call before it.

\* C1: on either adapter, when a message of length L has been drained by
\* reads with a buffer of size B, 0 < B < L, the read that follows the read
\* delivering the last byte returns Ok(0) without a recv (so no byte of the
\* next message comes first), and the read that follows that boundary signal
\* is the one that calls recv.
C1_BoundaryAfterDrain ==
    /\ (prev.kind = "fin" /\ last.op = "read" /\ last.B = prev.B)
           => (last.res = "Ok" /\ last.n = 0 /\ last.call = "none")
    /\ (prev.kind = "sig" /\ last.op = "read" /\ last.B = prev.B)
           => last.call = "recv"

\* C2: the bytes read has returned since the recv of the current message,
\* followed by what read_buffer still holds, are that message: at the end of
\* the message (read_buffer empty) the reads have returned exactly the message.
C2_RoundTrip ==
    /\ \A r \in Roles : got[r] \o read_buffer[r] = msg[r]
    /\ (last.op = "read" /\ last.res = "Ok") =>
           /\ Len(last.out) = last.n
           /\ last.n <= Len(got[sut])
           /\ SubSeq(got[sut], Len(got[sut]) - last.n + 1, Len(got[sut])) = last.out

C2_Witness ==
    /\ Fin(last) /\ read_buffer[sut] = <<>>
    /\ Len(msg[sut]) = MaxLen /\ got[sut] = msg[sut]
    /\ last.n < Len(msg[sut])

\* C5: disconnect with a non-empty read_buffer returns an error, does not
\* reach the channel's disconnect and changes nothing; with an empty
\* read_buffer it tears the channel down, clears connected and succeeds.
C5_DisconnectGuard ==
    last.op = "disconnect" =>
        IF last.pre.read_buffer # <<>>
        THEN /\ last.res = "Other" /\ last.call = "none"
             /\ connected[sut] = last.pre.connected
             /\ connection[sut] = last.pre.connection
             /\ read_buffer[sut] = last.pre.read_buffer
             /\ read_total_len[sut] = last.pre.read_total_len
        ELSE /\ last.res = "Ok" /\ last.call = "disconnect"
             /\ ~connected[sut] /\ ~connection[sut]

\* disconnect was refused with bytes pending
C5_Witness ==
    /\ last.op = "disconnect" /\ last.pre.read_buffer # <<>>
    /\ last.pre.connected /\ prev.kind = "other"

\* C6: with connected false, read, write, send and recv fail NotConnected,
\* do not reach the channel and leave the adapter's state as it was.
C6_NotConnected ==
    (last.op \in {"read", "write", "send", "recv"} /\ ~last.pre.connected) =>
        /\ last.res = "NotConnected" /\ last.call = "none"
        /\ connected[sut] = last.pre.connected
        /\ read_buffer[sut] = last.pre.read_buffer
        /\ read_total_len[sut] = last.pre.read_total_len

\* a read after a disconnect that left read_total_len set
C6_Witness ==
    /\ last.op = "read" /\ ~last.pre.connected /\ last.pre.read_total_len # 0

\* C7: the client's is_connected() is the conjunction of the flag and the
\* channel's is_connected; it is false until a connect succeeds and after a
\* successful disconnect, and true from a successful connect on until the
\* client disconnects.
C7_Connectivity ==
    /\ VirgeClient_is_connected <=> link["client"]
    /\ VirgeClient_is_connected <=> (connected["client"] /\ connection["client"])
    /\ sut = "client" =>
        /\ (last.op = "none") => ~VirgeClient_is_connected
        /\ (last.op = "disconnect" /\ last.res = "Ok") => ~VirgeClient_is_connected
        /\ (last.op = "connect" /\ last.res = "Ok") => VirgeClient_is_connected
        /\ (last.op = "connect" /\ last.res # "Ok") =>
               (VirgeClient_is_connected <=> (last.pre.connected /\ last.pre.connection))
        /\ (last.op \in {"read", "write", "send", "recv"}) =>
               (VirgeClient_is_connected <=> (last.pre.connected /\ last.pre.connection))

\* connected again after a disconnect and a second connect
C7_Witness ==
    /\ sut = "client" /\ last.op = "connect" /\ last.res = "Ok"
    /\ prev.kind = "other" /\ ~last.pre.connected /\ last.pre.read_total_len # 0
    /\ VirgeClient_is_connected

\* C9: a write on a connected adapter makes one call of the channel's send
\* with the whole of buf and returns its length, or returns an error; the
\* messages at the peer are the buffers of the writes, one each, in order.
C9_OneWriteOneMessage ==
    /\ (last.op = "write" /\ last.pre.connected) =>
           /\ last.call = "send" /\ last.res \in {"Ok", "Other"}
           /\ last.res = "Ok" => (last.n = last.B /\ Len(last.out) = last.B)
    /\ \A r \in Roles :
           LET q == inbox[Peer(r)] IN
           /\ Len(q) <= nsent[r]
           /\ \A i \in 1..Len(q) : q[i] = Payload(nsent[r] - Len(q) + i, Len(q[i]))
    /\ (last.op = "write" /\ last.res = "Ok" /\ nsent[sut] > 0
            /\ Len(inbox[Peer(sut)]) = nsent[sut]) =>
           inbox[Peer(sut)][nsent[sut]] = last.out

\* two writes, two messages at the peer
C9_Witness ==
    /\ last.op = "write" /\ last.res = "Ok" /\ last.B = MaxLen
    /\ nsent[sut] = 2 /\ Len(inbox[Peer(sut)]) = 2

\* -------------------------------------------------- properties checked under SpecYamux
\* In these formulas `ylast` is the last call of the recorded transport (sut):
\* the stream it used, whether it opened that stream, whether a cached handle
\* existed before the call and whether that stream was already half-closed.

\* C3: a send on a connected channel opens one new outbound stream, writes
\* the whole message to it and half-closes it; it uses no handle of an
\* earlier call and never a half-closed stream, so no stream serves two sends.
C3_FreshStreamPerSend ==
    /\ (ylast.op = "send" /\ ylast.connected /\ ylast.up) =>
           /\ ylast.opened /\ ~ylast.cached /\ ~ylast.halfclosed
           /\ ylast.res = "Ok"
    /\ \A s \in 1..Len(streams) : streams[s].sends <= 1

\* C4: a recv accepts the next inbound stream, opened by the peer; it opens
\* no outbound stream and reads from no stream an earlier call used.
C4_RecvAcceptsInbound ==
    (ylast.op = "recv" /\ ylast.connected /\ ylast.up) =>
        /\ ~ylast.opened /\ ~ylast.cached
        /\ ylast.stream # 0 => streams[ylast.stream].owner = Peer(sut)

IsPrefix(a, b) == Len(a) <= Len(b) /\ a = SubSeq(b, 1, Len(a))

\* the messages of the sends that succeeded, in the order of the calls
RECURSIVE Sent(_)
Sent(log) ==
    IF log = <<>> THEN <<>>
    ELSE LET rest == Sent(SubSeq(log, 1, Len(log) - 1))
             e == log[Len(log)] IN
         IF e.res = "Ok" THEN Append(rest, e.data) ELSE rest

\* C8: sequential sends on one connected channel all succeed, and the peer's
\* recv calls return the messages in the order they were sent.
C8_Ordering ==
    /\ \A i \in 1..Len(slog) : (slog[i].conn /\ slog[i].up) => slog[i].res = "Ok"
    /\ IsPrefix(rlog[Peer(sut)], Sent(slog))

\* ------------------------------------------------ properties checked under SpecExample
\* C10: the client of the example fills its 8-byte buffer and then its data
\* buffer from the server's two writes: no read of the two read_exact calls
\* returns 0 (which ends read_exact with UnexpectedEof), and when main is
\* through it holds the length and the data the server wrote.
C10_LengthPrefixedExchange ==
    /\ cmain.pc \notin {"eof", "exited:eof"}
    /\ cmain.pc \in {"done", "exited:done"} =>
           (cmain.data_len = Len(smain.data) /\ cmain.buf = smain.data)

\* C11: send and recv of the channel succeed only while it is connected; on a
\* channel never connected or disconnected they fail with the NotConnected
\* error and no other kind, open no stream and leave the channel disconnected.
C11_ChannelNotConnected ==
    /\ (ylast.op \in {"send", "recv"} /\ ~ylast.connected) =>
           /\ ylast.res = "NotConnected"
           /\ ~ylast.opened /\ ylast.stream = 0
           /\ ~connection[sut] /\ yamux_stream[sut] = 0
    /\ (ylast.op \in {"send", "recv"} /\ ylast.res = "Ok") => ylast.connected

\* C12: a connect whose channel connect fails returns an error and changes
\* neither the channel's connection nor the client's connected flag, so an
\* unconnected client stays unconnected and is_connected() stays false; a
\* successful connect sets both, and no other call of an unconnected client
\* makes it connected.
C12_ConnectAtomic ==
    sut = "client" =>
        /\ (last.op = "connect" /\ last.res # "Ok") =>
               /\ connected["client"] = last.pre.connected
               /\ connection["client"] = last.pre.connection
               /\ ~(last.pre.connected /\ last.pre.connection) => ~VirgeClient_is_connected
        /\ (last.op = "connect" /\ last.res = "Ok") =>
               (connected["client"] /\ connection["client"] /\ VirgeClient_is_connected)
        /\ ~(last.op = "connect" /\ last.res = "Ok") =>
               /\ ~last.pre.connected => ~connected["client"]
               /\ ~last.pre.connection => ~connection["client"]

\* a connect that failed on a client that had disconnected from a session
C12_Witness ==
    /\ sut = "client" /\ last.op = "connect" /\ last.res # "Ok"
    /\ ~last.pre.connected /\ ~last.pre.connection
    /\ prev.kind = "other" /\ nsent["client"] > 0

C14_ReadEquivalence ==
    pair.turn = "client" => pair.cres = pair.sres

\* C15: a read of a connected adapter whose read_buffer is not empty returns
\* min(len(read_buffer), len(buf)), hands out the first that many bytes of
\* read_buffer in order, leaves the rest of read_buffer in order and calls no
\* recv; and no read returns more than len(buf).
C15_BufferedRead ==
    /\ (last.op = "read" /\ last.pre.connected /\ last.pre.read_buffer # <<>>) =>
           /\ last.res = "Ok" /\ last.call = "none"
           /\ last.n = (IF Len(last.pre.read_buffer) <= last.B
                        THEN Len(last.pre.read_buffer) ELSE last.B)
           /\ last.out = SubSeq(last.pre.read_buffer, 1, last.n)
           /\ read_buffer[sut] =
                  SubSeq(last.pre.read_buffer, last.n + 1, Len(last.pre.read_buffer))
    /\ (last.op = "read" /\ last.res = "Ok") =>
           (last.n <= last.B /\ Len(last.out) = last.n)

\* a buffered read that left bytes behind
C15_Witness ==
    /\ last.op = "read" /\ last.res = "Ok" /\ last.B > 0
    /\ Len(last.pre.read_buffer) > last.B /\ read_buffer[sut] # <<>>

\* C16: a read into a non-empty buffer that returns Ok(0) is a boundary
\* signal: the call made no recv, a received message of non-zero length had
\* been handed out completely, and the call reset read_total_len to 0; so a
\* zero-length message never shows as an Ok(0).
C16_ZeroReadIsBoundary ==
    (last.op = "read" /\ last.res = "Ok" /\ last.n = 0 /\ last.B > 0) =>
        /\ last.call = "none"
        /\ last.pre.read_buffer = <<>> /\ last.pre.read_total_len > 0
        /\ Len(msg[sut]) > 0 /\ got[sut] = msg[sut]
        /\ read_total_len[sut] = 0

IsSuffix(a, b) == Len(a) <= Len(b) /\ a = SubSeq(b, Len(b) - Len(a) + 1, Len(b))

\* C17: read_buffer holds a suffix of one received message, the last one
\* read received; read calls recv only with read_buffer empty and
\* read_total_len 0, so no message is received or appended to read_buffer
\* while bytes of the one before are still there.
C17_OneMessageBuffered ==
    /\ \A r \in Roles : IsSuffix(read_buffer[r], msg[r])
    /\ (last.op = "read" /\ last.call = "recv") =>
           /\ last.pre.read_buffer = <<>> /\ last.pre.read_total_len = 0
           /\ last.res = "Ok" => IsSuffix(read_buffer[sut], msg[sut])
    /\ (last.op = "read" /\ last.pre.read_buffer # <<>>) =>
           (last.call = "none" /\ IsSuffix(read_buffer[sut], last.pre.read_buffer))

\* a read that kept a remainder while the next message was waiting
C17_Witness ==
    /\ last.op = "read" /\ last.call = "recv" /\ last.res = "Ok"
    /\ read_buffer[sut] # <<>> /\ inbox[sut] # <<>>

\* C18: when the channel's recv fails in a read, or its send fails in a
\* write, that call returns an I/O error (kind Other) after the one attempt,
\* and connected, read_buffer and read_total_len are as before the call.
C18_FailureSurfaced ==
    (last.op \in {"read", "write"} /\ last.call \in {"recv", "send"} /\ last.res # "Ok") =>
        /\ last.res = "Other" /\ last.n = 0 /\ last.out = <<>>
        /\ last.call = (IF last.op = "read" THEN "recv" ELSE "send")
        /\ connected[sut] = last.pre.connected
        /\ read_buffer[sut] = last.pre.read_buffer
        /\ read_total_len[sut] = last.pre.read_total_len

\* a write that failed in the channel while read_buffer held bytes
C18_Witness ==
    /\ last.op = "write" /\ last.call = "send" /\ last.res = "Other"
    /\ last.pre.connected /\ last.pre.read_buffer # <<>>

\* C19: on either adapter, after any calls with any buffer sizes (0 too),
\* read_buffer is no longer than read_total_len, so a non-empty read_buffer
\* comes with a read_total_len that is not 0.
C19_ReadState ==
    \A r \in Roles :
        /\ Len(read_buffer[r]) <= read_total_len[r]
        /\ read_buffer[r] # <<>> => read_total_len[r] # 0

\* a read with an empty buffer that left a whole message in read_buffer
C19_Witness ==
    /\ last.op = "read" /\ last.B = 0 /\ last.call = "recv"
    /\ Len(read_buffer[sut]) = MaxLen /\ read_total_len[sut] = MaxLen

\* C20: when a client that had disconnected connects again, read_total_len
\* is 0 and read_buffer is empty, so that the first read of the new session
\* calls recv and returns no boundary signal left from the session before.
C20_NoStaleBoundary ==
    (sut = "client" /\ last.op = "connect" /\ last.res = "Ok" /\ ~last.pre.connected) =>
        (read_total_len["client"] = 0 /\ read_buffer["client"] = <<>>)
====
